---- MODULE Spec2Model ----
(***************************************************************************)
(* State-machine model of the boardgame-app frontend component `App`       *)
(* (React + axios): the mount effect, the five asynchronous handlers and   *)
(* the buttons that start them.  One page lifetime is modelled: from the   *)
(* page load (URL query and localStorage arbitrary) up to, not including,  *)
(* the unload of the page.                                                 *)
(*                                                                         *)
(* Every handler is an async function: the part before `await` runs in the *)
(* step that starts it, the part after `await` (then / catch / finally) in *)
(* the step that settles its request.  Handlers started by the mount       *)
(* effect run with the closures of the first render, in which authToken    *)
(* is still its initial value; handlers started by a button run with the   *)
(* closures of the current render.                                         *)
(***************************************************************************)
EXTENDS Integers, FiniteSets, Sequences, TLC

\* JavaScript null (URLSearchParams.get / localStorage.getItem of an absent key).
NULL == "null"
\* The empty string, which JavaScript treats as falsy.
EMPTY == ""

\* Bearer tokens and session ids: the ones already in storage at page load and
\* the ones the OAuth redirect puts into the URL.
StoredTokens == {"tokOld"}
UrlTokens == {"tokNew"}
StoredSessions == {"sessOld"}
UrlSessions == {"sessNew"}

\* Bound on the number of button clicks of one page lifetime.
MaxClicks == 2

\* Results of a request, as the handlers distinguish them: only fetchUserInfo
\* tells a 401 from the other failures (another status, no response at all).
Outcomes(kind) ==
    IF kind = "user" THEN {"ok", "unauthorized", "failed"} ELSE {"ok", "failed"}

\* Error texts of the handlers (err.message left out).
ErrInfo == "Failed to fetch API info"
ErrUser == "Failed to fetch user info"
ErrLogin == "Failed to initiate login"
ErrProtected == "Failed to fetch protected data"
ErrNoToken == "Please log in first"

VARIABLES
    apiInfo,        \* useState<ApiInfo | null>
    protectedData,  \* useState<ProtectedData | null>
    userInfo,       \* useState<UserInfo | null>
    loading,        \* useState<boolean>
    error,          \* useState<string | null>
    authToken,      \* useState<string | null>
    storage,        \* localStorage: keys auth_token and session_id
    search,         \* window.location.search: token, session, other parameters
    href,           \* navigation target written to window.location.href
    mounted,        \* the mount effect has run
    inflight,       \* requests awaiting their response
    sent,           \* history: every request sent so far
    clicks,         \* history: number of button clicks so far
    load,           \* history: URL query and storage at page load
    last,           \* history: the step taken last
    got401,         \* history: GET /auth/user was answered with 401
    failure         \* history: a request failed and no click followed it

vars == <<apiInfo, protectedData, userInfo, loading, error, authToken, storage,
          search, href, mounted, inflight, sent, clicks, load, last, got401,
          failure>>

\* JavaScript truthiness of a string | null.
Truthy(s) == s # NULL /\ s # EMPTY

\* The URL has a query string.
HasQuery(s) == s.token # NULL \/ s.session # NULL \/ s.other

\* authToken as seen by the closures of the first render (useState initial value).
FirstRenderAuthToken == NULL

\* A request: its Authorization bearer (NULL: no header), the authToken of the
\* closure that sent it, and what caused it (mount, click, failure) in which
\* trigger (0: mount, k: k-th click).
Request(id, kind, bearer, closure, cause, trigger) ==
    [id |-> id, kind |-> kind, bearer |-> bearer, closure |-> closure,
     cause |-> cause, trigger |-> trigger]

NextId == Cardinality(sent) + 1

Step(op, outcome) == [op |-> op, outcome |-> outcome]

----------------------------------------------------------------------------
\* checkAuthStatus, as functions of the URL query s and the storage st.

\* checkAuthStatus without its localStorage.getItem branch.
CheckAuthStatusToken_UrlOnly(s, st) ==
    IF Truthy(s.token) THEN s.token ELSE NULL

\* checkAuthStatus looking into localStorage before the URL.
CheckAuthStatusToken_StoredFirst(s, st) ==
    IF Truthy(st.auth_token) THEN st.auth_token
    ELSE IF Truthy(s.token) THEN s.token
    ELSE NULL

\* The token checkAuthStatus adopts (NULL: none).
CheckAuthStatusToken(s, st) ==
    IF Truthy(s.token) THEN s.token
    ELSE IF Truthy(st.auth_token) THEN st.auth_token
    ELSE NULL

\* checkAuthStatus without setItem('auth_token', tokenFromUrl).
CheckAuthStatusStorage_TokenNotStored(s, st) ==
    IF Truthy(s.token)
    THEN [auth_token |-> st.auth_token,
          session_id |-> IF Truthy(s.session) THEN s.session ELSE st.session_id]
    ELSE st

\* localStorage after checkAuthStatus.
CheckAuthStatusStorage(s, st) ==
    IF Truthy(s.token)
    THEN [auth_token |-> s.token,
          session_id |-> IF Truthy(s.session) THEN s.session ELSE st.session_id]
    ELSE st

\* checkAuthStatus without its replaceState call.
CheckAuthStatusSearch_NotStripped(s) == s

\* window.location.search after checkAuthStatus (replaceState to the pathname).
CheckAuthStatusSearch(s) ==
    IF Truthy(s.token)
    THEN [token |-> NULL, session |-> NULL, other |-> FALSE]
    ELSE s

\* fetchUserInfo(token): the token it uses, closure being the closure's authToken.
TokenToUse(token, closure) == IF Truthy(token) THEN token ELSE closure

\* The requests fetchUserInfo sends for argument token (none without a token).
FetchUserInfoRequests(id, token, closure, cause, trigger) ==
    IF Truthy(TokenToUse(token, closure))
    THEN {Request(id, "user", TokenToUse(token, closure), closure, cause, trigger)}
    ELSE {}

\* handleLogout: the bearer of its POST, closure being the closure's authToken.
LogoutBearer(closure) == IF Truthy(closure) THEN closure ELSE NULL

Init ==
    /\ apiInfo = NULL
    /\ protectedData = NULL
    /\ userInfo = NULL
    /\ loading = FALSE
    /\ error = NULL
    /\ authToken = NULL
    /\ storage \in {st \in [auth_token : StoredTokens \cup {NULL},
                            session_id : StoredSessions \cup {NULL}] :
                        st.session_id # NULL => st.auth_token # NULL}
    /\ search \in [token : UrlTokens \cup {NULL, EMPTY},
                   session : UrlSessions \cup {NULL, EMPTY},
                   other : BOOLEAN]
    /\ href = NULL
    /\ mounted = FALSE
    /\ inflight = {}
    /\ sent = {}
    /\ clicks = 0
    /\ load = [search |-> search, storage |-> storage]
    /\ last = Step("init", "none")
    /\ got401 = FALSE
    /\ failure = FALSE

----------------------------------------------------------------------------
\* useEffect(() => { checkAuthStatus(); fetchApiInfo(); }, []): the synchronous
\* parts of checkAuthStatus, of the fetchUserInfo it calls and of fetchApiInfo.
Mount ==
    /\ ~mounted
    /\ mounted' = TRUE
    /\ LET tok == CheckAuthStatusToken(search, storage)
           userReqs == FetchUserInfoRequests(NextId, tok, FirstRenderAuthToken,
                                             "mount", 0)
           infoReq == Request(NextId + Cardinality(userReqs), "info", NULL,
                              FirstRenderAuthToken, "mount", 0)
       IN /\ authToken' = tok
          /\ inflight' = inflight \cup userReqs \cup {infoReq}
          /\ sent' = sent \cup userReqs \cup {infoReq}
    /\ storage' = CheckAuthStatusStorage(search, storage)
    /\ search' = CheckAuthStatusSearch(search)
    /\ loading' = TRUE
    /\ error' = NULL
    /\ last' = Step("mount", "none")
    /\ UNCHANGED <<apiInfo, protectedData, userInfo, href, clicks, load,
                   got401, failure>>

\* A button can be clicked: the component is mounted and the click bound allows it.
CanClick == mounted /\ clicks < MaxClicks

\* The start of a handler that sends one request: setLoading(true); setError(null).
StartRequest(kind, bearer) ==
    /\ loading' = TRUE
    /\ error' = NULL
    /\ LET r == Request(NextId, kind, bearer, authToken, "click", clicks + 1)
       IN /\ inflight' = inflight \cup {r}
          /\ sent' = sent \cup {r}

\* fetchApiInfo up to its await, from the button "Test API Connection".
ClickTestApi ==
    /\ CanClick
    /\ ~loading
    /\ StartRequest("info", NULL)
    /\ clicks' = clicks + 1
    /\ failure' = FALSE
    /\ last' = Step("fetchApiInfo", "sent")
    /\ UNCHANGED <<apiInfo, protectedData, userInfo, authToken, storage, search,
                   href, mounted, load, got401>>

\* handleLogin up to its await, from the button "Sign in with Google".
ClickSignIn ==
    /\ CanClick
    /\ userInfo = NULL
    /\ ~loading
    /\ StartRequest("login", NULL)
    /\ clicks' = clicks + 1
    /\ failure' = FALSE
    /\ last' = Step("handleLogin", "sent")
    /\ UNCHANGED <<apiInfo, protectedData, userInfo, authToken, storage, search,
                   href, mounted, load, got401>>

\* handleLogout up to its await, from the button "Sign Out".
ClickSignOut ==
    /\ CanClick
    /\ userInfo # NULL
    /\ ~loading
    /\ StartRequest("logout", LogoutBearer(authToken))
    /\ clicks' = clicks + 1
    /\ failure' = FALSE
    /\ last' = Step("handleLogout", "sent")
    /\ UNCHANGED <<apiInfo, protectedData, userInfo, authToken, storage, search,
                   href, mounted, load, got401>>

\* fetchProtectedData without its `if (!authToken)` guard.
FetchProtectedData_NoGuard ==
    /\ StartRequest("protected", authToken)
    /\ last' = Step("fetchProtectedData", "sent")

\* fetchProtectedData up to its return or its await.
FetchProtectedData ==
    IF ~Truthy(authToken)
    THEN /\ error' = ErrNoToken
         /\ last' = Step("fetchProtectedData", "no_token")
         /\ UNCHANGED <<loading, inflight, sent>>
    ELSE /\ StartRequest("protected", authToken)
         /\ last' = Step("fetchProtectedData", "sent")

\* The button "Access Game Data", rendered when userInfo is set.
ClickAccessGameData ==
    /\ CanClick
    /\ userInfo # NULL
    /\ ~loading
    /\ FetchProtectedData
    /\ clicks' = clicks + 1
    /\ failure' = FALSE
    /\ UNCHANGED <<apiInfo, protectedData, userInfo, authToken, storage, search,
                   href, mounted, load, got401>>

\* The button "Try Access Game Data", rendered when userInfo is null and
\* disabled without a token.
ClickTryAccessGameData ==
    /\ CanClick
    /\ userInfo = NULL
    /\ ~(~Truthy(authToken) \/ loading)
    /\ FetchProtectedData
    /\ clicks' = clicks + 1
    /\ failure' = FALSE
    /\ UNCHANGED <<apiInfo, protectedData, userInfo, authToken, storage, search,
                   href, mounted, load, got401>>

\* fetchProtectedData called as a function, whatever the buttons render.
CallFetchProtectedData ==
    /\ CanClick
    /\ FetchProtectedData
    /\ clicks' = clicks + 1
    /\ failure' = FALSE
    /\ UNCHANGED <<apiInfo, protectedData, userInfo, authToken, storage, search,
                   href, mounted, load, got401>>

----------------------------------------------------------------------------
\* The continuations of the handlers: then / catch / finally.

\* fetchApiInfo after its await, calling itself again from its catch.
InfoSettle_Retry ==
    \E r \in inflight : \E o \in Outcomes(r.kind) :
        /\ r.kind = "info"
        /\ IF o = "ok"
           THEN /\ apiInfo' = "apiInfo"
                /\ inflight' = inflight \ {r}
                /\ loading' = FALSE
                /\ UNCHANGED <<error, failure, sent>>
           ELSE LET again == Request(NextId, "info", NULL, r.closure, "failure",
                                     r.trigger)
                IN /\ error' = NULL
                   /\ failure' = TRUE
                   /\ inflight' = (inflight \ {r}) \cup {again}
                   /\ sent' = sent \cup {again}
                   /\ loading' = FALSE
                   /\ UNCHANGED apiInfo
        /\ last' = Step("fetchApiInfo", o)
        /\ UNCHANGED <<protectedData, userInfo, authToken, storage, search, href,
                       mounted, clicks, load, got401>>

\* fetchApiInfo after its await.
InfoSettle ==
    \E r \in inflight : \E o \in Outcomes(r.kind) :
        /\ r.kind = "info"
        /\ inflight' = inflight \ {r}
        /\ IF o = "ok"
           THEN apiInfo' = "apiInfo" /\ UNCHANGED <<error, failure>>
           ELSE error' = ErrInfo /\ failure' = TRUE /\ UNCHANGED apiInfo
        /\ loading' = FALSE
        /\ last' = Step("fetchApiInfo", o)
        /\ UNCHANGED <<protectedData, userInfo, authToken, storage, search, href,
                       mounted, sent, clicks, load, got401>>

\* fetchUserInfo's catch without the call of handleLogout.
LogoutOnUnauthorized_NotCalled(r) == {}

\* handleLogout up to its await when fetchUserInfo's catch calls it: the
\* request it sends, r being the failed user lookup.
LogoutOnUnauthorized(r) ==
    {Request(NextId, "logout", LogoutBearer(r.closure), r.closure, "failure",
             r.trigger)}

\* fetchUserInfo's catch calling handleLogout on every failure.
IsUnauthorized_AnyFailure(o) == o # "ok"

\* fetchUserInfo's catch: err.response?.status === 401.
IsUnauthorized(o) == o = "unauthorized"

\* fetchUserInfo after its await.  On a 401 the catch sets the error and calls
\* handleLogout, which runs up to its await (setLoading(true); setError(null);
\* POST) before the finally of fetchUserInfo sets loading to false.
UserSettle ==
    \E r \in inflight : \E o \in Outcomes(r.kind) :
        /\ r.kind = "user"
        /\ IF o = "ok"
           THEN /\ userInfo' = "userInfo"
                /\ inflight' = inflight \ {r}
                /\ UNCHANGED <<error, sent, got401, failure>>
           ELSE IF IsUnauthorized(o)
           THEN /\ error' = NULL
                /\ inflight' = (inflight \ {r}) \cup LogoutOnUnauthorized(r)
                /\ sent' = sent \cup LogoutOnUnauthorized(r)
                /\ got401' = TRUE
                /\ failure' = TRUE
                /\ UNCHANGED userInfo
           ELSE /\ error' = ErrUser
                /\ inflight' = inflight \ {r}
                /\ failure' = TRUE
                /\ UNCHANGED <<userInfo, sent, got401>>
        /\ loading' = FALSE
        /\ last' = Step("fetchUserInfo", o)
        /\ UNCHANGED <<apiInfo, protectedData, authToken, storage, search, href,
                       mounted, clicks, load>>

\* handleLogin after its await, redirecting from its finally block.
LoginSettle_AlwaysRedirects ==
    \E r \in inflight : \E o \in Outcomes(r.kind) :
        /\ r.kind = "login"
        /\ inflight' = inflight \ {r}
        /\ href' = "authorization_url"
        /\ IF o = "ok"
           THEN UNCHANGED <<error, failure>>
           ELSE error' = ErrLogin /\ failure' = TRUE
        /\ loading' = FALSE
        /\ last' = Step("handleLogin", o)
        /\ UNCHANGED <<apiInfo, protectedData, userInfo, authToken, storage,
                       search, mounted, sent, clicks, load, got401>>

\* handleLogin after its await.
LoginSettle ==
    \E r \in inflight : \E o \in Outcomes(r.kind) :
        /\ r.kind = "login"
        /\ inflight' = inflight \ {r}
        /\ IF o = "ok"
           THEN href' = "authorization_url" /\ UNCHANGED <<error, failure>>
           ELSE error' = ErrLogin /\ failure' = TRUE /\ UNCHANGED href
        /\ loading' = FALSE
        /\ last' = Step("handleLogin", o)
        /\ UNCHANGED <<apiInfo, protectedData, userInfo, authToken, storage,
                       search, mounted, sent, clicks, load, got401>>

\* The finally block of handleLogout without removeItem('session_id').
HandleLogoutFinally_KeepsSession ==
    /\ authToken' = NULL
    /\ userInfo' = NULL
    /\ protectedData' = NULL
    /\ storage' = [storage EXCEPT !.auth_token = NULL]
    /\ loading' = FALSE

\* The finally block of handleLogout writing empty strings instead of removing.
HandleLogoutFinally_WritesEmpty ==
    /\ authToken' = EMPTY
    /\ userInfo' = NULL
    /\ protectedData' = NULL
    /\ storage' = [auth_token |-> EMPTY, session_id |-> EMPTY]
    /\ loading' = FALSE

\* The finally block of handleLogout without setUserInfo(null).
HandleLogoutFinally_KeepsIdentity ==
    /\ authToken' = NULL
    /\ protectedData' = NULL
    /\ storage' = [auth_token |-> NULL, session_id |-> NULL]
    /\ loading' = FALSE
    /\ UNCHANGED userInfo

\* The finally block of handleLogout without setLoading(false).
HandleLogoutFinally_KeepsLoading ==
    /\ authToken' = NULL
    /\ userInfo' = NULL
    /\ protectedData' = NULL
    /\ storage' = [auth_token |-> NULL, session_id |-> NULL]
    /\ UNCHANGED loading

\* The finally block of handleLogout.
HandleLogoutFinally ==
    /\ authToken' = NULL
    /\ userInfo' = NULL
    /\ protectedData' = NULL
    /\ storage' = [auth_token |-> NULL, session_id |-> NULL]
    /\ loading' = FALSE

\* handleLogout after its await: the catch only logs.
LogoutSettle ==
    \E r \in inflight : \E o \in Outcomes(r.kind) :
        /\ r.kind = "logout"
        /\ inflight' = inflight \ {r}
        /\ HandleLogoutFinally
        /\ last' = Step("handleLogout", o)
        /\ UNCHANGED <<apiInfo, error, search, href, mounted, sent, clicks, load,
                       got401, failure>>

\* fetchProtectedData after its await.
ProtectedSettle ==
    \E r \in inflight : \E o \in Outcomes(r.kind) :
        /\ r.kind = "protected"
        /\ inflight' = inflight \ {r}
        /\ IF o = "ok"
           THEN protectedData' = "protectedData" /\ UNCHANGED <<error, failure>>
           ELSE error' = ErrProtected /\ failure' = TRUE /\ UNCHANGED protectedData
        /\ loading' = FALSE
        /\ last' = Step("fetchProtectedData", o)
        /\ UNCHANGED <<apiInfo, userInfo, authToken, storage, search, href,
                       mounted, sent, clicks, load, got401>>

Next ==
    \/ Mount
    \/ ClickTestApi
    \/ ClickSignIn
    \/ ClickSignOut
    \/ ClickAccessGameData
    \/ ClickTryAccessGameData
    \/ InfoSettle
    \/ UserSettle
    \/ LoginSettle
    \/ LogoutSettle
    \/ ProtectedSettle

\* The page as the user drives it.
Spec == Init /\ [][Next]_vars

\* The page with fetchProtectedData also called directly.
NextCall == Next \/ CallFetchProtectedData

SpecCall == Init /\ [][NextCall]_vars

\* Every logout request is eventually answered or fails.
FairSpec == Spec /\ WF_vars(LogoutSettle)

\* Every request is eventually answered or fails.
FairAllSpec ==
    /\ Spec
    /\ WF_vars(InfoSettle)
    /\ WF_vars(UserSettle)
    /\ WF_vars(LoginSettle)
    /\ WF_vars(LogoutSettle)
    /\ WF_vars(ProtectedSettle)

----------------------------------------------------------------------------
\* Properties.

\* handleLogout has just finished (its finally block was the last step).
LogoutFinished == last.op = "handleLogout" /\ last.outcome \in {"ok", "failed"}

\* No token, no identity, and neither storage key.
Cleared ==
    /\ authToken = NULL
    /\ userInfo = NULL
    /\ storage.auth_token = NULL
    /\ storage.session_id = NULL

\* The requests of a kind sent so far.
SentOf(kind) == {r \in sent : r.kind = kind}

\* C1: once handleLogout has finished, whether POST /auth/logout succeeded or
\* was rejected, the token, the identity and the protected payload are null
\* and the storage keys auth_token and session_id are absent.
C1_LogoutClearsAll ==
    LogoutFinished => Cleared /\ protectedData = NULL

\* A logout whose POST was rejected has finished, on a page that was loaded
\* with a token and a session id in storage and had fetched the identity.
C1_Witness ==
    /\ last = Step("handleLogout", "failed")
    /\ load.storage.session_id # NULL
    /\ ~Truthy(load.search.token)
    /\ \E r \in SentOf("logout") : r.cause = "click"
    /\ Cleared

\* C2: fetchProtectedData invoked without a token sends no request, sets the
\* error to 'Please log in first' and leaves protectedData and loading as they
\* are; every /api/protected request sent carries as bearer the token held
\* when it was triggered.
C2_NoTokenNoAccess ==
    [][/\ (clicks' = clicks + 1 /\ last'.op = "fetchProtectedData"
              /\ ~Truthy(authToken))
          => /\ sent' = sent
             /\ inflight' = inflight
             /\ error' = ErrNoToken
             /\ protectedData' = protectedData
             /\ loading' = loading
       /\ \A r \in sent' \ sent :
              r.kind = "protected" => Truthy(authToken) /\ r.bearer = authToken
      ]_vars

\* fetchProtectedData has just returned early on a page without a token.
C2_Witness ==
    /\ last = Step("fetchProtectedData", "no_token")
    /\ authToken = NULL
    /\ error = ErrNoToken

\* C3 as stated: after the mount of a page loaded with a non-empty token
\* parameter, auth_token and the in-memory token equal it, the session
\* parameter, when present, is stored under session_id, and the URL has no
\* query string.
C3_Original ==
    (last.op = "mount" /\ Truthy(load.search.token))
        => /\ storage.auth_token = load.search.token
           /\ authToken = load.search.token
           /\ load.search.session # NULL
                  => storage.session_id = load.search.session
           /\ ~HasQuery(search)

\* C3 as amended: the same, with the session parameter stored when it is
\* present and non-empty.
C3_TokenPersistedAndStripped ==
    (last.op = "mount" /\ Truthy(load.search.token))
        => /\ storage.auth_token = load.search.token
           /\ authToken = load.search.token
           /\ Truthy(load.search.session)
                  => storage.session_id = load.search.session
           /\ ~HasQuery(search)

\* The page was loaded with token, session and another parameter in the URL
\* and an older token and session in storage, and has mounted.
C3_Witness ==
    /\ last.op = "mount"
    /\ load.search.token \in UrlTokens
    /\ load.search.session \in UrlSessions
    /\ load.search.other
    /\ load.storage.session_id \in StoredSessions
    /\ storage.session_id \in UrlSessions

\* C4: a page loaded without a URL token and with a stored token sends exactly
\* one GET /auth/user, with the stored token as bearer, and the mount sets the
\* in-memory token to it; a page loaded with neither sends no identity request
\* and its token stays null.
C4_StoredTokenFetchesIdentity ==
    (mounted /\ ~Truthy(load.search.token))
        => IF Truthy(load.storage.auth_token)
           THEN /\ Cardinality(SentOf("user")) = 1
                /\ \A r \in SentOf("user") : r.bearer = load.storage.auth_token
                /\ last.op = "mount" => authToken = load.storage.auth_token
           ELSE /\ SentOf("user") = {}
                /\ authToken = NULL

\* The identity fetched with the stored token has arrived.
C4_Witness ==
    /\ last = Step("fetchUserInfo", "ok")
    /\ ~Truthy(load.search.token)
    /\ load.storage.auth_token \in StoredTokens
    /\ authToken = load.storage.auth_token
    /\ userInfo # NULL

\* C5: once GET /auth/user has been answered with 401, and provided the logout
\* request is eventually answered or fails, a state is eventually reached with
\* no token, no identity and neither storage key.
C5_UnauthorizedLogsOut == got401 ~> Cleared

\* After a 401 on the lookup of a token that was in storage with a session id,
\* the logout has finished and everything is cleared.
C5_Witness ==
    /\ got401
    /\ LogoutFinished
    /\ load.storage.session_id # NULL
    /\ Cleared

\* C6 as stated: after a failed info, login, user-lookup or protected request,
\* once nothing is in flight any more and no click has followed, the error
\* message is not null.
C6_Original ==
    (failure /\ inflight = {}) => error # NULL

\* C7 as stated: every POST /auth/logout sent while a token is held in memory
\* and in storage carries that token as its bearer.
C7_Original ==
    [][\A r \in sent' \ sent :
           (r.kind = "logout" /\ Truthy(authToken)
                /\ storage.auth_token = authToken)
               => r.bearer = authToken
      ]_vars

\* C8 as stated: a protected payload is shown only while a token is held.
C8_Original ==
    protectedData # NULL => Truthy(authToken)

\* C9 as stated: while any request is in flight, loading is true.
C9_Original ==
    inflight # {} => loading

\* A POST /auth/logout has been answered or has failed.
LogoutSettled == \E r \in SentOf("logout") : r \notin inflight

\* C10: after the mount no step writes a new value to auth_token or to the
\* in-memory token, they are only removed, and only by the end of a logout; so
\* the token is the one adopted at the mount until a logout has finished and
\* null from then on, in whatever order the responses arrive.
C10_TokenNeverContended ==
    /\ [](mounted =>
            /\ authToken = IF LogoutSettled THEN NULL
                           ELSE CheckAuthStatusToken(load.search, load.storage)
            /\ storage.auth_token = authToken)
    /\ [][mounted =>
            /\ authToken' \in {authToken, NULL}
            /\ storage'.auth_token \in {storage.auth_token, NULL}
            /\ (authToken' # authToken
                    \/ storage'.auth_token # storage.auth_token)
                   => LogoutFinished'
         ]_vars

\* A logout has removed the token of the URL after the info and the identity
\* response had both arrived.
C10_Witness ==
    /\ LogoutFinished
    /\ Truthy(load.search.token)
    /\ authToken = NULL
    /\ storage.auth_token = NULL
    /\ \E u \in SentOf("user"), i \in SentOf("info") :
           u \notin inflight /\ i \notin inflight

\* C11: an identity is shown only while a token is held in memory and in
\* storage; no user-lookup response sets the identity after a logout has
\* cleared the token.
C11_IdentityImpliesToken ==
    userInfo # NULL => Truthy(authToken) /\ storage.auth_token = authToken

\* The identity is shown, with a payload fetched for it, while other requests
\* of the page have already been answered.
C11_Witness ==
    /\ userInfo # NULL
    /\ protectedData # NULL
    /\ Truthy(authToken)
    /\ \E i \in SentOf("info") : i \notin inflight

\* C12: after the mount the in-memory token equals the value stored under
\* auth_token, both null/absent or both the same string.
C12_TokenEqualsStored ==
    mounted => authToken = storage.auth_token

\* The page was loaded with a token in the URL and another one in storage, and
\* holds the URL token in memory and in storage.
C12_Witness ==
    /\ mounted
    /\ load.storage.auth_token \in StoredTokens
    /\ authToken \in UrlTokens
    /\ storage.auth_token = authToken
    /\ clicks > 0

\* C13: a user lookup that fails with anything but a 401 leaves the in-memory
\* token, auth_token and session_id as they are and sends no logout request;
\* it sets the error message, leaves the identity null (and, in its finally
\* block, resets loading).
C13_OtherFailureKeepsToken ==
    [][last' = Step("fetchUserInfo", "failed")
          => /\ authToken' = authToken
             /\ storage' = storage
             /\ sent' = sent
             /\ inflight' \subseteq inflight
             /\ error' = ErrUser
             /\ userInfo = NULL /\ userInfo' = NULL
             /\ loading' = FALSE
             /\ UNCHANGED <<apiInfo, protectedData, search, href>>
      ]_vars

\* The lookup of a stored token has failed with another status than 401 and
\* token and session id are still held.
C13_Witness ==
    /\ last = Step("fetchUserInfo", "failed")
    /\ authToken \in StoredTokens
    /\ storage = load.storage
    /\ storage.session_id \in StoredSessions
    /\ error = ErrUser
    /\ SentOf("logout") = {}

\* C14 as stated: a page loaded with a token parameter and a stored auth_token
\* overwrites the stored value by the URL value and sends exactly one GET
\* /auth/user, with the URL token as bearer; a session parameter without a
\* token parameter changes nothing in storage.
C14_Original ==
    /\ (mounted /\ load.search.token # NULL /\ Truthy(load.storage.auth_token))
           => /\ Cardinality(SentOf("user")) = 1
              /\ \A r \in SentOf("user") : r.bearer = load.search.token
              /\ last.op = "mount" => storage.auth_token = load.search.token
    /\ (last.op = "mount" /\ load.search.token = NULL
            /\ load.search.session # NULL)
           => storage = load.storage

\* C14 as amended: the same for a non-empty token parameter.
C14_UrlTokenTakesPrecedence ==
    /\ (mounted /\ Truthy(load.search.token) /\ Truthy(load.storage.auth_token))
           => /\ Cardinality(SentOf("user")) = 1
              /\ \A r \in SentOf("user") : r.bearer = load.search.token
              /\ last.op = "mount" => storage.auth_token = load.search.token
    /\ (last.op = "mount" /\ load.search.token = NULL
            /\ load.search.session # NULL)
           => storage = load.storage

\* The page was loaded with a token in the URL and another one in storage and
\* has mounted: the URL token is stored and is the bearer of the lookup.
C14_Witness ==
    /\ last.op = "mount"
    /\ load.search.token \in UrlTokens
    /\ load.storage.auth_token \in StoredTokens
    /\ storage.auth_token = load.search.token
    /\ \E r \in inflight : r.kind = "user" /\ r.bearer = load.search.token

\* C15: handleLogin never changes the token, the identity, the protected
\* payload or the storage; a successful GET /auth/login navigates to the
\* authorization_url, a failed one navigates nowhere and sets the error to the
\* 'Failed to initiate login' message.
C15_LoginFrame ==
    [][last'.op = "handleLogin"
          => /\ UNCHANGED <<authToken, userInfo, protectedData, storage>>
             /\ last'.outcome = "ok" => href' = "authorization_url"
             /\ last'.outcome = "failed" => href' = href /\ error' = ErrLogin
             /\ last'.outcome = "sent" => href' = href
      ]_vars

\* A login started while a token was held has failed: no navigation, the
\* error is set and the token is still held.
C15_Witness ==
    /\ last = Step("handleLogin", "failed")
    /\ href = NULL
    /\ error = ErrLogin
    /\ Truthy(authToken)
    /\ storage.auth_token = authToken

\* C16: provided every request in flight is eventually answered or fails, a
\* state without any request in flight is always reached again, and in every
\* state without a request in flight loading is false.
C16_LoadingSettles ==
    /\ [](inflight = {} => ~loading)
    /\ (inflight # {}) ~> (inflight = {})

\* All requests of the mount, of a 401 logout and of a click have settled and
\* loading is false.
C16_Witness ==
    /\ mounted
    /\ inflight = {}
    /\ ~loading
    /\ got401
    /\ clicks > 0
    /\ Cardinality(sent) >= 4

\* C17: no request is re-issued: per trigger (mount or click) at most one
\* request of a kind is sent, every click sends exactly one request, and a
\* failed request causes no request but the single logout POST after a 401 on
\* the user lookup.
C17_NoRetries ==
    /\ [](/\ \A r1, r2 \in sent :
                 (r1.kind = r2.kind /\ r1.trigger = r2.trigger) => r1 = r2
          /\ \A k \in 1..clicks :
                 Cardinality({r \in sent : r.trigger = k}) = 1
          /\ mounted => Cardinality({r \in SentOf("info") : r.trigger = 0}) = 1
          /\ \A r \in sent : r.cause = "failure" => r.kind = "logout"
          /\ Cardinality({r \in sent : r.cause = "failure"})
                 = IF got401 THEN 1 ELSE 0)
    /\ [][last'.outcome \in {"failed", "unauthorized"}
             => IF last' = Step("fetchUserInfo", "unauthorized")
                THEN \E r \in sent' \ sent :
                         sent' = sent \cup {r} /\ r.kind = "logout"
                ELSE sent' = sent
         ]_vars

\* After the info request of the mount, the user lookup and a clicked request
\* have all failed, exactly the three of them have been sent.
C17_Witness ==
    /\ last.outcome = "failed"
    /\ inflight = {}
    /\ clicks = 1
    /\ ~got401
    /\ error # NULL
    /\ Cardinality(sent) = 3
    /\ \A r \in sent : r.kind # "logout"

====
